---- MODULE Spec2Model ----
(***************************************************************************)
(* Hierarchical timer wheel of the repository.                             *)
(*                                                                         *)
(* Two classes keep a wheel: TimerWheelSimulator (timer_wheel_simulator.py)*)
(* and TimerWheel (timer_wheel_expiration.py).  Both have the same fields  *)
(* (HZ, clock, vectors, pending_map); the variable impl says which class   *)
(* the wheel under study is an instance of.  advance_time is a loop over   *)
(* unit ticks: it is modelled by AdvanceStart, one step per loop iteration *)
(* (Tick), and AdvanceEnd; no other call can start while it runs.          *)
(* ret holds what the last completed call returned or raised.              *)
(***************************************************************************)
EXTENDS Integers, Sequences, FiniteSets, TLC

VARIABLES
    impl,                    \* "simulator" | "expiration": the class of the wheel
    HZ,                      \* constructor argument
    clock,                   \* self.clock (simulator) / self.clk (expiration)
    vectors,                 \* self.vectors: the non-empty buckets, index -> list
    pending_map,             \* self.pending_map: the indices whose marker is 1
    timers_added,            \* self.timers_added
    timers_expired,          \* self.timers_expired
    pc,                      \* "new" (not constructed) | "idle" | "advancing"
    ticks_to_advance,        \* advance_time's local ticks_to_advance
    tick,                    \* loop iterations of advance_time completed so far
    expired_in_this_advance, \* advance_time's local counter
    calls,                   \* handler invocations so far: <<[id, tick, raised]>>
    added,                   \* what each add_timer call was given and returned
    nCalls,                  \* add_timer and advance_time calls made so far
    start_clock,             \* the clock when the running advance_time call began
    ret                      \* the last call: [op, arg, val, exc]

vars == <<impl, HZ, clock, vectors, pending_map, timers_added, timers_expired,
          pc, ticks_to_advance, tick, expired_in_this_advance, calls, added,
          nCalls, start_clock, ret>>

-----------------------------------------------------------------------------
(* Bounds of the model *)

MaxCalls == 4

MaxClock == 1073741824

\* a handler that re-arms does so until the wheel has been given MaxTimers timers
MaxTimers == 4

\* the timers given to a wheel that is studied level by level
MaxLevelTimers == 2

\* the calls made on a wheel before an advance is split in two
MaxSplitCalls == 2

HZValues == {100, 1000}

None == -1

-----------------------------------------------------------------------------
(* Geometry: TimerWheelConfig.__post_init__ *)

LVL_CLK_SHIFT == 3

LVL_BITS == 6

LVL_SIZE == 2^LVL_BITS

LVL_MASK == LVL_SIZE - 1

\* LVL_DEPTH with the boundary HZ = 100 on the side of 9 levels
LVL_DEPTHFrom100(hz) == IF hz >= 100 THEN 9 ELSE 8

LVL_DEPTH(hz) == IF hz > 100 THEN 9 ELSE 8

level_gran(n) == 2^(n * LVL_CLK_SHIFT)

\* level_start without the case n = 0: level 0 starts where level 1 does
level_startNoZero(n) ==
    (LVL_SIZE - 1) * 2^((IF n = 0 THEN 0 ELSE n - 1) * LVL_CLK_SHIFT)

level_start(n) == IF n = 0 THEN 0 ELSE (LVL_SIZE - 1) * 2^((n - 1) * LVL_CLK_SHIFT)

WHEEL_TIMEOUT_CUTOFF(hz) == level_start(LVL_DEPTH(hz))

WHEEL_TIMEOUT_MAX(hz) == WHEEL_TIMEOUT_CUTOFF(hz) - level_gran(LVL_DEPTH(hz) - 1)

WHEEL_SIZE(hz) == LVL_SIZE * LVL_DEPTH(hz)

\* a // b of Python for b # 0: the floor of the quotient, whatever the signs
\* (b = 0 raises ZeroDivisionError: see ZeroDivision)
FloorDiv(a, b) == IF b > 0 THEN a \div b ELSE (-a) \div (-b)

get_tick_ms(hz) == FloorDiv(1000, hz)

\* ms // get_tick_ms() raises ZeroDivisionError: in get_tick_ms when HZ = 0,
\* in the conversion when the tick length 1000 // HZ is 0 (HZ > 1000)
ZeroDivision(hz) == IF hz = 0 THEN TRUE ELSE get_tick_ms(hz) = 0

\* what a call returned (val) or raised (exc), and the argument it was given
Returned(op, arg, val) == [op |-> op, arg |-> arg, val |-> val, exc |-> ""]

Raised(op, arg, exc) == [op |-> op, arg |-> arg, val |-> None, exc |-> exc]

\* x >> k and x & LVL_MASK on Python integers (floor shift, non-negative mask)
ShiftRight(x, k) == x \div 2^k

\* BucketOf with the level shift taken from LVL_BITS instead of LVL_CLK_SHIFT
BucketOfWrongShift(t, level) == ShiftRight(t, LVL_BITS * level) % LVL_SIZE

\* (t >> (LVL_CLK_SHIFT * level)) & LVL_MASK
BucketOf(t, level) == ShiftRight(t, LVL_CLK_SHIFT * level) % LVL_SIZE

level_offset(n) == n * LVL_SIZE

-----------------------------------------------------------------------------
(* Index mapping *)

\* TimerWheelSimulator.calc_index: the level loop.  The last level compares
\* delta with WHEEL_TIMEOUT_MAX, every other level with level_start[lvl + 1].
RECURSIVE FindLevel(_, _, _)
FindLevel(lvl, delta, hz) ==
    IF lvl = LVL_DEPTH(hz) - 1
    THEN IF delta < WHEEL_TIMEOUT_MAX(hz) THEN lvl ELSE None
    ELSE IF delta < level_start(lvl + 1) THEN lvl
         ELSE FindLevel(lvl + 1, delta, hz)

\* TimerWheelSimulator.calc_index(expires) with self.clock = clk
calc_index(clk, hz, expires) ==
    LET delta == expires - clk
        level == FindLevel(0, delta, hz)
    IN  IF level = None THEN None
        ELSE (level * LVL_SIZE) + BucketOf(expires, level)

\* timer_wheel_expiration.TimerWheel.calc_index: the if/elif chain.
ExpLevel(delta, hz) ==
    IF delta < level_start(1) THEN 0
    ELSE IF delta < level_start(2) THEN 1
    ELSE IF delta < level_start(3) THEN 2
    ELSE IF delta < level_start(4) THEN 3
    ELSE IF delta < level_start(5) THEN 4
    ELSE IF delta < level_start(6) THEN 5
    ELSE IF delta < level_start(7) THEN 6
    ELSE IF delta < level_start(8) THEN 7
    ELSE IF LVL_DEPTH(hz) > 8 /\ delta < level_start(9) THEN 8
    ELSE None

exp_calc_index(clk, hz, expires) ==
    LET delta == expires - clk
        level == ExpLevel(delta, hz)
    IN  IF level = None THEN None
        ELSE level_offset(level) + BucketOf(expires, level)

\* a lookup level_start[n] beyond the table, which has the entries 0..LVL_DEPTH,
\* raises IndexError
IndexError == -2

TableHas(hz, n) == n <= LVL_DEPTH(hz)

\* Level76 without the test of LVL_DEPTH before the lookup of level_start[9]
Level76NoDepthTest(delta, hz) ==
    IF delta < level_start(1) THEN 0
    ELSE IF delta < level_start(2) THEN 1
    ELSE IF delta < level_start(3) THEN 2
    ELSE IF delta < level_start(4) THEN 3
    ELSE IF delta < level_start(5) THEN 4
    ELSE IF delta < level_start(6) THEN 5
    ELSE IF delta < level_start(7) THEN 6
    ELSE IF delta < level_start(8) THEN 7
    ELSE IF ~TableHas(hz, 9) THEN IndexError
    ELSE IF delta < level_start(9) THEN 8
    ELSE None

\* timer_wheel_76.TimerWheel.time_to_index: the if/elif chain.  In
\* `self.LVL_DEPTH > 8 and delta < self.level_start[9]` the lookup is made
\* only if the first test holds.
Level76(delta, hz) ==
    IF delta < level_start(1) THEN 0
    ELSE IF delta < level_start(2) THEN 1
    ELSE IF delta < level_start(3) THEN 2
    ELSE IF delta < level_start(4) THEN 3
    ELSE IF delta < level_start(5) THEN 4
    ELSE IF delta < level_start(6) THEN 5
    ELSE IF delta < level_start(7) THEN 6
    ELSE IF delta < level_start(8) THEN 7
    ELSE IF ~(LVL_DEPTH(hz) > 8) THEN None
    ELSE IF ~TableHas(hz, 9) THEN IndexError
    ELSE IF delta < level_start(9) THEN 8
    ELSE None

\* timer_wheel_76.TimerWheel.time_to_index(expires, clk) of TimerWheel(hz)
time_to_index(expires, clk, hz) ==
    LET delta == expires - clk
        level == Level76(delta, hz)
    IN  IF level \in {None, IndexError} THEN level
        ELSE level_offset(level) + BucketOf(expires, level)

-----------------------------------------------------------------------------
(* Bucket array and marker array.  Both have WHEEL_SIZE entries, nearly all  *)
(* of them empty lists and zeros: vectors is kept as the function from the   *)
(* indices of the non-empty lists, pending_map as the set of indices whose   *)
(* marker is 1.                                                              *)

\* self.vectors[idx]
Bucket(v, idx) == IF idx \in DOMAIN v THEN v[idx] ELSE <<>>

\* self.vectors[idx] = list
Store(v, idx, list) ==
    IF list = <<>>
    THEN [j \in (DOMAIN v) \ {idx} |-> v[j]]
    ELSE [j \in (DOMAIN v) \cup {idx} |-> IF j = idx THEN list ELSE v[j]]

\* self.pending_map[idx]
Marker(m, idx) == IF idx \in m THEN 1 ELSE 0

\* self.pending_map[idx] = bit
SetMarker(m, idx, bit) == IF bit = 1 THEN m \cup {idx} ELSE m \ {idx}

-----------------------------------------------------------------------------
(* The wheel as a value: the fields an operation reads and writes *)

Self ==
    [hz |-> HZ, clock |-> clock, vectors |-> vectors, pending_map |-> pending_map,
     timers_added |-> timers_added, timers_expired |-> timers_expired,
     expired |-> expired_in_this_advance, calls |-> calls, added |-> added,
     failing |-> {}]

\* Timer(id, expires, callback, data, wheel_index); data is opaque and left out
Timer(id, expires, callback, idx) ==
    [id |-> id, expires |-> expires, callback |-> callback, wheel_index |-> idx]

\* add_timer that stores the new timer as the only one of its bucket
add_timerReplaces(w, timeout_ms, callback) ==
    LET timer_id == w.timers_added
        timeout_ticks == FloorDiv(timeout_ms, get_tick_ms(w.hz))
        expires0 == w.clock + timeout_ticks
        idx0 == calc_index(w.clock, w.hz, expires0)
        expires == IF idx0 = None THEN w.clock + WHEEL_TIMEOUT_MAX(w.hz) ELSE expires0
        idx == IF idx0 = None THEN WHEEL_SIZE(w.hz) - 1 ELSE idx0
        timer == Timer(timer_id, expires, callback, idx)
    IN  [w EXCEPT !.vectors = Store(@, idx, <<timer>>),
                  !.pending_map = SetMarker(@, idx, 1),
                  !.timers_added = @ + 1,
                  !.added = Append(@, [id |-> timer_id, clk |-> w.clock,
                                       timeout_ticks |-> timeout_ticks,
                                       calc |-> idx0, expires |-> expires,
                                       wheel_index |-> idx])]

\* add_timer that builds the Timer before the clamp: on overflow the timer is
\* stored at WHEEL_SIZE - 1 with the wheel_index calc_index returned
add_timerStaleIndex(w, timeout_ms, callback) ==
    LET timer_id == w.timers_added
        timeout_ticks == FloorDiv(timeout_ms, get_tick_ms(w.hz))
        expires0 == w.clock + timeout_ticks
        idx0 == calc_index(w.clock, w.hz, expires0)
        expires == IF idx0 = None THEN w.clock + WHEEL_TIMEOUT_MAX(w.hz) ELSE expires0
        idx == IF idx0 = None THEN WHEEL_SIZE(w.hz) - 1 ELSE idx0
        timer == Timer(timer_id, expires, callback, idx0)
    IN  [w EXCEPT !.vectors = Store(@, idx, Append(Bucket(@, idx), timer)),
                  !.pending_map = SetMarker(@, idx, 1),
                  !.timers_added = @ + 1,
                  !.added = Append(@, [id |-> timer_id, clk |-> w.clock,
                                       timeout_ticks |-> timeout_ticks,
                                       calc |-> idx0, expires |-> expires,
                                       wheel_index |-> idx0])]

\* TimerWheelSimulator.add_timer(timeout_ms, callback) with the default timer id
add_timer(w, timeout_ms, callback) ==
    LET timer_id == w.timers_added
        timeout_ticks == FloorDiv(timeout_ms, get_tick_ms(w.hz))
        expires0 == w.clock + timeout_ticks
        idx0 == calc_index(w.clock, w.hz, expires0)
        expires == IF idx0 = None THEN w.clock + WHEEL_TIMEOUT_MAX(w.hz) ELSE expires0
        idx == IF idx0 = None THEN WHEEL_SIZE(w.hz) - 1 ELSE idx0
        timer == Timer(timer_id, expires, callback, idx)
    IN  [w EXCEPT !.vectors = Store(@, idx, Append(Bucket(@, idx), timer)),
                  !.pending_map = SetMarker(@, idx, 1),
                  !.timers_added = @ + 1,
                  !.added = Append(@, [id |-> timer_id, clk |-> w.clock,
                                       timeout_ticks |-> timeout_ticks,
                                       calc |-> idx0, expires |-> expires,
                                       wheel_index |-> idx])]

\* exp_add_timer that stores the timer in the last bucket when calc_index
\* returns None
exp_add_timerClamps(w, timer_id, timeout_ms) ==
    LET tick_ms == get_tick_ms(w.hz)
        timeout_ticks == FloorDiv(timeout_ms, tick_ms)
        expires == w.clock + timeout_ticks
        idx == exp_calc_index(w.clock, w.hz, expires)
        at == IF idx = None THEN WHEEL_SIZE(w.hz) - 1 ELSE idx
        entry == [id |-> timer_id, clk |-> w.clock,
                  timeout_ticks |-> timeout_ticks,
                  calc |-> idx, expires |-> expires, wheel_index |-> idx]
    IN  [w EXCEPT !.vectors = Store(@, at, Append(Bucket(@, at),
                                      Timer(timer_id, expires, "print", at))),
                  !.pending_map = SetMarker(@, at, 1),
                  !.added = Append(@, entry)]

\* timer_wheel_expiration.TimerWheel.add_timer(timer_id, timeout_ms)
exp_add_timer(w, timer_id, timeout_ms) ==
    LET tick_ms == get_tick_ms(w.hz)
        timeout_ticks == FloorDiv(timeout_ms, tick_ms)
        expires == w.clock + timeout_ticks
        idx == exp_calc_index(w.clock, w.hz, expires)
        entry == [id |-> timer_id, clk |-> w.clock,
                  timeout_ticks |-> timeout_ticks,
                  calc |-> idx, expires |-> expires, wheel_index |-> idx]
    IN  IF idx = None
        THEN [w EXCEPT !.added = Append(@, entry)]
        ELSE [w EXCEPT !.vectors = Store(@, idx, Append(Bucket(@, idx),
                                           Timer(timer_id, expires, "print", idx))),
                       !.pending_map = SetMarker(@, idx, 1),
                       !.added = Append(@, entry)]

\* the window add_timer announces for a timer of wheel index idx ("Will fire
\* between"): window_start = bucket << (level * LVL_CLK_SHIFT), window_end =
\* ((bucket + 1) << (level * LVL_CLK_SHIFT)) - 1
window_start(idx) ==
    (idx % LVL_SIZE) * 2^((idx \div LVL_SIZE) * LVL_CLK_SHIFT)

window_end(idx) ==
    (((idx % LVL_SIZE) + 1) * 2^((idx \div LVL_SIZE) * LVL_CLK_SHIFT)) - 1

-----------------------------------------------------------------------------
(* advance_time: one iteration of the loop over unit ticks *)

\* the handlers that call add_timer on the wheel, with themselves as the
\* handler of the new timer, and the timeout they ask for
Rearms(callback) == callback \in {"rearm_0", "rearm_tick"}

RearmMs(callback, hz) == IF callback = "rearm_0" THEN 0 ELSE get_tick_ms(hz)

\* InvokeCallback that passes the expiry of the timer as the firing tick
InvokeCallbackWithExpiry(w, timer) ==
    LET called == [w EXCEPT !.calls = Append(@, [id |-> timer.id, tick |-> timer.expires,
                                                 raised |-> (timer.id \in w.failing)])]
    IN  IF Rearms(timer.callback) /\ timer.id \notin w.failing
           /\ w.timers_added < MaxTimers
        THEN add_timer(called, RearmMs(timer.callback, w.hz), timer.callback)
        ELSE called

\* try: timer.callback(timer.id, timer.data, self.clock) / except Exception:
\* the handler sees the id and the clock; one that raises (w.failing holds the
\* ids of the timers whose handler does) is caught and reported.  A handler
\* that re-arms and does not raise calls add_timer before it returns.
InvokeCallback(w, timer) ==
    LET called == [w EXCEPT !.calls = Append(@, [id |-> timer.id, tick |-> w.clock,
                                                 raised |-> (timer.id \in w.failing)])]
    IN  IF Rearms(timer.callback) /\ timer.id \notin w.failing
           /\ w.timers_added < MaxTimers
        THEN add_timer(called, RearmMs(timer.callback, w.hz), timer.callback)
        ELSE called

\* ScanBucket that also keeps the timers it has fired
RECURSIVE ScanBucketKeepsFired(_, _, _, _)
ScanBucketKeepsFired(w, idx, i, timers_to_keep) ==
    IF i > Len(Bucket(w.vectors, idx))
    THEN [w EXCEPT !.vectors = Store(@, idx, timers_to_keep),
                   !.pending_map = IF timers_to_keep = <<>>
                                   THEN SetMarker(@, idx, 0) ELSE @]
    ELSE LET timer == Bucket(w.vectors, idx)[i] IN
         IF timer.expires <= w.clock
         THEN ScanBucketKeepsFired(
                  InvokeCallback([w EXCEPT !.expired = @ + 1,
                                           !.timers_expired = @ + 1], timer),
                  idx, i + 1, Append(timers_to_keep, timer))
         ELSE ScanBucketKeepsFired(w, idx, i + 1, Append(timers_to_keep, timer))

\* ScanBucket without the try/except: a handler that raises ends the scan of
\* the bucket before the bucket is stored back
RECURSIVE ScanBucketAbort(_, _, _, _)
ScanBucketAbort(w, idx, i, timers_to_keep) ==
    IF i > Len(Bucket(w.vectors, idx))
    THEN [w EXCEPT !.vectors = Store(@, idx, timers_to_keep),
                   !.pending_map = IF timers_to_keep = <<>>
                                   THEN SetMarker(@, idx, 0) ELSE @]
    ELSE LET timer == Bucket(w.vectors, idx)[i] IN
         IF timer.expires <= w.clock
         THEN IF timer.id \in w.failing
              THEN InvokeCallback([w EXCEPT !.expired = @ + 1,
                                            !.timers_expired = @ + 1], timer)
              ELSE ScanBucketAbort(
                       InvokeCallback([w EXCEPT !.expired = @ + 1,
                                                !.timers_expired = @ + 1], timer),
                       idx, i + 1, timers_to_keep)
         ELSE ScanBucketAbort(w, idx, i + 1, Append(timers_to_keep, timer))

\* ScanBucket that counts a timer as expired only after its handler returned
RECURSIVE ScanBucketCountsReturns(_, _, _, _)
ScanBucketCountsReturns(w, idx, i, timers_to_keep) ==
    IF i > Len(Bucket(w.vectors, idx))
    THEN [w EXCEPT !.vectors = Store(@, idx, timers_to_keep),
                   !.pending_map = IF timers_to_keep = <<>>
                                   THEN SetMarker(@, idx, 0) ELSE @]
    ELSE LET timer == Bucket(w.vectors, idx)[i]
             n == IF timer.id \in w.failing THEN 0 ELSE 1
         IN
         IF timer.expires <= w.clock
         THEN ScanBucketCountsReturns(
                  InvokeCallback([w EXCEPT !.expired = @ + n,
                                           !.timers_expired = @ + n], timer),
                  idx, i + 1, timers_to_keep)
         ELSE ScanBucketCountsReturns(w, idx, i + 1, Append(timers_to_keep, timer))

\* ScanBucket that leaves the marker of a bucket it has emptied as it is
RECURSIVE ScanBucketKeepsMarker(_, _, _, _)
ScanBucketKeepsMarker(w, idx, i, timers_to_keep) ==
    IF i > Len(Bucket(w.vectors, idx))
    THEN [w EXCEPT !.vectors = Store(@, idx, timers_to_keep)]
    ELSE LET timer == Bucket(w.vectors, idx)[i] IN
         IF timer.expires <= w.clock
         THEN ScanBucketKeepsMarker(
                  InvokeCallback([w EXCEPT !.expired = @ + 1,
                                           !.timers_expired = @ + 1], timer),
                  idx, i + 1, timers_to_keep)
         ELSE ScanBucketKeepsMarker(w, idx, i + 1, Append(timers_to_keep, timer))

\* ScanBucket with the test timer.expires < self.clock: a timer is not yet due
\* in the iteration for its own expiry tick
RECURSIVE ScanBucketStrict(_, _, _, _)
ScanBucketStrict(w, idx, i, timers_to_keep) ==
    IF i > Len(Bucket(w.vectors, idx))
    THEN [w EXCEPT !.vectors = Store(@, idx, timers_to_keep),
                   !.pending_map = IF timers_to_keep = <<>>
                                   THEN SetMarker(@, idx, 0) ELSE @]
    ELSE LET timer == Bucket(w.vectors, idx)[i] IN
         IF timer.expires < w.clock
         THEN ScanBucketStrict(
                  InvokeCallback([w EXCEPT !.expired = @ + 1,
                                           !.timers_expired = @ + 1], timer),
                  idx, i + 1, timers_to_keep)
         ELSE ScanBucketStrict(w, idx, i + 1, Append(timers_to_keep, timer))

\* for timer in self.vectors[idx]: ... ; self.vectors[idx] = timers_to_keep ;
\* if not timers_to_keep: self.pending_map[idx] = 0.   i is the position of the
\* list iterator, timers_to_keep the list built so far.
RECURSIVE ScanBucket(_, _, _, _)
ScanBucket(w, idx, i, timers_to_keep) ==
    IF i > Len(Bucket(w.vectors, idx))
    THEN [w EXCEPT !.vectors = Store(@, idx, timers_to_keep),
                   !.pending_map = IF timers_to_keep = <<>>
                                   THEN SetMarker(@, idx, 0) ELSE @]
    ELSE LET timer == Bucket(w.vectors, idx)[i] IN
         IF timer.expires <= w.clock
         THEN ScanBucket(
                  InvokeCallback([w EXCEPT !.expired = @ + 1,
                                           !.timers_expired = @ + 1], timer),
                  idx, i + 1, timers_to_keep)
         ELSE ScanBucket(w, idx, i + 1, Append(timers_to_keep, timer))

\* ScanLevels that leaves out level 0: range(1, LVL_DEPTH)
RECURSIVE ScanLevelsFromLevel1(_, _)
ScanLevelsFromLevel1(w, level) ==
    IF level >= LVL_DEPTH(w.hz) THEN w
    ELSE LET bucket == BucketOf(w.clock, level)
             idx == (level * LVL_SIZE) + bucket
         IN  IF level >= 1 /\ Marker(w.pending_map, idx) = 1 /\ Bucket(w.vectors, idx) # <<>>
             THEN ScanLevelsFromLevel1(ScanBucket(w, idx, 1, <<>>), level + 1)
             ELSE ScanLevelsFromLevel1(w, level + 1)

\* the scan of a bucket over a copy of its list, list(self.vectors[idx]): the
\* timers that handlers append to the bucket during the scan are not met, and
\* storing timers_to_keep drops them
RECURSIVE ScanSnapshot(_, _, _, _, _)
ScanSnapshot(w, idx, snapshot, i, timers_to_keep) ==
    IF i > Len(snapshot)
    THEN [w EXCEPT !.vectors = Store(@, idx, timers_to_keep),
                   !.pending_map = IF timers_to_keep = <<>>
                                   THEN SetMarker(@, idx, 0) ELSE @]
    ELSE LET timer == snapshot[i] IN
         IF timer.expires <= w.clock
         THEN ScanSnapshot(
                  InvokeCallback([w EXCEPT !.expired = @ + 1,
                                           !.timers_expired = @ + 1], timer),
                  idx, snapshot, i + 1, timers_to_keep)
         ELSE ScanSnapshot(w, idx, snapshot, i + 1, Append(timers_to_keep, timer))

RECURSIVE ScanLevelsSnapshot(_, _)
ScanLevelsSnapshot(w, level) ==
    IF level >= LVL_DEPTH(w.hz) THEN w
    ELSE LET bucket == BucketOf(w.clock, level)
             idx == (level * LVL_SIZE) + bucket
         IN  IF Marker(w.pending_map, idx) = 1 /\ Bucket(w.vectors, idx) # <<>>
             THEN ScanLevelsSnapshot(
                      ScanSnapshot(w, idx, Bucket(w.vectors, idx), 1, <<>>), level + 1)
             ELSE ScanLevelsSnapshot(w, level + 1)

\* ScanLevels that inspects level l only in the iterations whose tick is a
\* multiple of level_gran[l]
RECURSIVE ScanLevelsOnBoundary(_, _)
ScanLevelsOnBoundary(w, level) ==
    IF level >= LVL_DEPTH(w.hz) THEN w
    ELSE LET bucket == BucketOf(w.clock, level)
             idx == (level * LVL_SIZE) + bucket
         IN  IF w.clock % level_gran(level) = 0
                /\ Marker(w.pending_map, idx) = 1 /\ Bucket(w.vectors, idx) # <<>>
             THEN ScanLevelsOnBoundary(ScanBucket(w, idx, 1, <<>>), level + 1)
             ELSE ScanLevelsOnBoundary(w, level + 1)

\* for level in range(LVL_DEPTH): the bucket of self.clock at that level is
\* processed if its marker is set and its list is not empty.
RECURSIVE ScanLevels(_, _)
ScanLevels(w, level) ==
    IF level >= LVL_DEPTH(w.hz) THEN w
    ELSE LET bucket == BucketOf(w.clock, level)
             idx == (level * LVL_SIZE) + bucket
         IN  IF Marker(w.pending_map, idx) = 1 /\ Bucket(w.vectors, idx) # <<>>
             THEN ScanLevels(ScanBucket(w, idx, 1, <<>>), level + 1)
             ELSE ScanLevels(w, level + 1)

\* TimerWheelSimulator.advance_time, body of `for _ in range(ticks_to_advance)`
sim_tick(w, failing) == ScanLevels([w EXCEPT !.clock = @ + 1, !.failing = failing], 0)

\* timer_wheel_expiration.TimerWheel.advance_time: the bucket is partitioned
\* into timers_to_process and timers_to_keep, stored back, and the expired
\* timers are then reported (printed) with the tick new_clk.
ExpReport(w, timers_to_process, new_clk) ==
    [w EXCEPT !.calls = @ \o [k \in 1..Len(timers_to_process) |->
                                [id |-> timers_to_process[k].id, tick |-> new_clk,
                                 raised |-> FALSE]]]

ExpScanBucket(w, wheel_idx, new_clk) ==
    LET timers_to_process == SelectSeq(Bucket(w.vectors, wheel_idx),
                                       LAMBDA t : t.expires <= new_clk)
        timers_to_keep == SelectSeq(Bucket(w.vectors, wheel_idx),
                                    LAMBDA t : ~(t.expires <= new_clk))
    IN  ExpReport([w EXCEPT !.vectors = Store(@, wheel_idx, timers_to_keep),
                            !.pending_map = IF timers_to_keep = <<>>
                                            THEN SetMarker(@, wheel_idx, 0) ELSE @],
                  timers_to_process, new_clk)

RECURSIVE ExpScanLevels(_, _, _)
ExpScanLevels(w, level, new_clk) ==
    IF level >= LVL_DEPTH(w.hz) THEN w
    ELSE LET bucket_idx == BucketOf(new_clk, level)
             wheel_idx == level_offset(level) + bucket_idx
         IN  IF Marker(w.pending_map, wheel_idx) = 1
             THEN ExpScanLevels(ExpScanBucket(w, wheel_idx, new_clk), level + 1, new_clk)
             ELSE ExpScanLevels(w, level + 1, new_clk)

\* body of `for tick in range(1, ticks_to_advance + 1)`, new_clk = self.clk + tick
exp_tick(w, tk) == ExpScanLevels(w, 0, w.clock + tk)

-----------------------------------------------------------------------------
(* advance_time as one call: the loop run to its end *)

\* for _ in range(ticks_to_advance), n iterations to go; the handlers of the
\* timers in failing raise.  An iteration is complete, its clock written,
\* before the next one starts.
RECURSIVE SimLoop(_, _, _)
SimLoop(w, n, failing) ==
    IF n <= 0 THEN w
    ELSE LET after == sim_tick(w, failing)
         IN  IF after.clock = w.clock + 1 THEN SimLoop(after, n - 1, failing) ELSE after

\* TimerWheelSimulator.advance_time, ms_to_advance already in ticks
sim_advance_time(w, ticks, failing) == SimLoop(w, ticks, failing)

\* for tick in range(1, ticks_to_advance + 1)
RECURSIVE ExpLoop(_, _, _)
ExpLoop(w, tk, n) ==
    IF tk > n THEN w
    ELSE LET after == exp_tick(w, tk)
         IN  IF after.clock = w.clock THEN ExpLoop(after, tk + 1, n) ELSE after

\* exp_advance_time that adds 1 to self.clk per call that ran the loop
exp_advance_timeClkPerCall(w, ticks) ==
    [ExpLoop(w, 1, ticks) EXCEPT !.clock = IF ticks >= 1 THEN @ + 1 ELSE @]

\* timer_wheel_expiration.TimerWheel.advance_time: the loop, then
\* self.clk += ticks_to_advance
exp_advance_time(w, ticks) ==
    [ExpLoop(w, 1, ticks) EXCEPT !.clock = @ + ticks]

\* advance_time of the class of the wheel
advance_time(w, ticks, failing) ==
    IF impl = "simulator" THEN sim_advance_time(w, ticks, failing)
    ELSE exp_advance_time(w, ticks)

-----------------------------------------------------------------------------
(* Iterations of the loop that change nothing but the tick.                 *)
(* A bucket (level, slot) is inspected at tick T iff BucketOf(T, level) =   *)
(* slot, and a timer of it is due iff expires <= T.  FireTick is the first  *)
(* tick after `now` at which both hold; until then an iteration leaves the  *)
(* buckets, the markers and the counters as they are.                       *)

Max(a, b) == IF a >= b THEN a ELSE b

FireTick(now, idx, expires) ==
    LET level == idx \div LVL_SIZE
        slot == idx % LVL_SIZE
        lo == Max(now + 1, expires)
        q == ShiftRight(lo, LVL_CLK_SHIFT * level)
    IN  IF q % LVL_SIZE = slot THEN lo
        ELSE (q + ((slot - q) % LVL_SIZE)) * level_gran(level)

\* the tick the loop is at: self.clock (simulator), new_clk = self.clk + tick
\* (expiration, inside the loop)
Now == IF impl = "expiration" /\ pc = "advancing" THEN clock + tick ELSE clock

Marked == {i \in DOMAIN vectors : Marker(pending_map, i) = 1}

FireTicks ==
    UNION {{FireTick(Now, i, vectors[i][k].expires) : k \in 1..Len(vectors[i])} :
              i \in Marked}

\* every marked bucket holds a timer (an empty marked bucket would be unmarked
\* by the expiration class when inspected, which is a change)
NoEmptyMarked == {i \in pending_map : Bucket(vectors, i) = <<>>} = {}

DueNext == (Now + 1) \in FireTicks

\* the number of coming iterations that change nothing but the tick
Quiet ==
    LET left == ticks_to_advance - tick
        gaps == {f - Now - 1 : f \in FireTicks}
    IN  IF \E g \in gaps : g < left
        THEN CHOOSE g \in gaps : \A h \in gaps : g <= h
        ELSE left

-----------------------------------------------------------------------------
(* Inputs *)

TimeoutTicks(hz) ==
    {-1, 0, 1, 100, WHEEL_TIMEOUT_MAX(hz) - 1, WHEEL_TIMEOUT_MAX(hz),
     WHEEL_TIMEOUT_MAX(hz) + 1}

\* for the expiration class, whose calc_index accepts up to the cutoff
ExpTimeoutTicks(hz) ==
    {-1, 0, 1, 100, WHEEL_TIMEOUT_MAX(hz) - 1, WHEEL_TIMEOUT_CUTOFF(hz) - 1,
     WHEEL_TIMEOUT_CUTOFF(hz)}

AdvanceTicks(hz) == {-1, 0, 1, 99, WHEEL_TIMEOUT_MAX(hz)}

\* the milliseconds of these ticks (arguments with a sub-tick rest are among
\* WideMillis and WideAdvanceMillis)
Millis(ticks, hz) == {t * get_tick_ms(hz) : t \in ticks}

\* the timers a handler is called for in the coming iteration
DueIds ==
    UNION {{vectors[i][k].id : k \in {j \in 1..Len(vectors[i]) :
                 FireTick(Now, i, vectors[i][j].expires) = Now + 1}} : i \in Marked}

-----------------------------------------------------------------------------
(* State machine *)

\* a freshly constructed wheel of class cls
Constructed(cls) ==
    /\ impl = cls
    /\ HZ \in HZValues
    /\ clock = 0
    /\ vectors = [i \in {} |-> <<>>]
    /\ pending_map = {}
    /\ timers_added = 0
    /\ timers_expired = 0
    /\ pc = "idle"
    /\ ticks_to_advance = 0
    /\ tick = 0
    /\ expired_in_this_advance = 0
    /\ calls = <<>>
    /\ added = <<>>
    /\ nCalls = 0
    /\ start_clock = 0
    /\ ret = Returned("__init__", 0, 0)

\* the fields of the wheel value w become the next state
Becomes(w) ==
    /\ clock' = w.clock
    /\ vectors' = w.vectors
    /\ pending_map' = w.pending_map
    /\ timers_added' = w.timers_added
    /\ timers_expired' = w.timers_expired
    /\ expired_in_this_advance' = w.expired
    /\ calls' = w.calls
    /\ added' = w.added

AddTimer ==
    /\ pc = "idle"
    /\ impl = "simulator"
    /\ nCalls < MaxCalls
    /\ \E timeout_ms \in Millis(TimeoutTicks(HZ), HZ) :
          /\ Becomes(add_timer(Self, timeout_ms, "handler"))
          /\ ret' = Returned("add_timer", timeout_ms, timers_added)
    /\ nCalls' = nCalls + 1
    /\ UNCHANGED <<impl, HZ, pc, ticks_to_advance, tick, start_clock>>

ExpAddTimer ==
    /\ pc = "idle"
    /\ impl = "expiration"
    /\ nCalls < MaxCalls
    /\ \E timeout_ms \in Millis(ExpTimeoutTicks(HZ), HZ) :
          /\ Becomes(exp_add_timer(Self, Len(added), timeout_ms))
          /\ ret' = Returned("add_timer", timeout_ms,
                              exp_calc_index(clock, HZ,
                                  clock + FloorDiv(timeout_ms, get_tick_ms(HZ))))
    /\ nCalls' = nCalls + 1
    /\ UNCHANGED <<impl, HZ, pc, ticks_to_advance, tick, start_clock>>

\* advance_time(ms_to_advance) up to the loop
AdvanceStart ==
    /\ pc = "idle"
    /\ nCalls < MaxCalls
    /\ \E ms_to_advance \in Millis(AdvanceTicks(HZ), HZ) :
          /\ clock + FloorDiv(ms_to_advance, get_tick_ms(HZ)) <= MaxClock
          /\ ticks_to_advance' = FloorDiv(ms_to_advance, get_tick_ms(HZ))
          /\ ret' = Returned("advance_time", ms_to_advance, None)
    /\ nCalls' = nCalls + 1
    /\ pc' = "advancing"
    /\ tick' = 0
    /\ expired_in_this_advance' = 0
    /\ start_clock' = clock
    /\ UNCHANGED <<impl, HZ, clock, vectors, pending_map, timers_added,
                   timers_expired, calls, added>>

\* one iteration of the loop: one in which a timer is due, or the last one
Tick ==
    /\ pc = "advancing"
    /\ impl = "simulator"
    /\ tick < ticks_to_advance
    /\ DueNext \/ tick + 1 = ticks_to_advance
    /\ \E failing \in SUBSET DueIds : Becomes(sim_tick(Self, failing))
    /\ tick' = tick + 1
    /\ UNCHANGED <<impl, HZ, pc, ticks_to_advance, nCalls, start_clock, ret>>

ExpTick ==
    /\ pc = "advancing"
    /\ impl = "expiration"
    /\ tick < ticks_to_advance
    /\ DueNext \/ tick + 1 = ticks_to_advance \/ ~NoEmptyMarked
    /\ Becomes(exp_tick(Self, tick + 1))
    /\ tick' = tick + 1
    /\ UNCHANGED <<impl, HZ, pc, ticks_to_advance, nCalls, start_clock, ret>>

\* the coming iterations in which no inspected bucket holds a due timer
Skip ==
    /\ pc = "advancing"
    /\ tick < ticks_to_advance
    /\ NoEmptyMarked
    /\ Quiet >= 1
    /\ tick' = tick + Quiet
    /\ clock' = IF impl = "simulator" THEN clock + Quiet ELSE clock
    /\ UNCHANGED <<impl, HZ, vectors, pending_map, timers_added, timers_expired,
                   pc, ticks_to_advance, expired_in_this_advance, calls, added,
                   nCalls, start_clock, ret>>

\* the loop has run all its iterations
LoopDone == pc = "advancing" /\ tick >= ticks_to_advance

\* remaining = sum(len(bucket) for bucket in self.vectors)
RECURSIVE SumLen(_, _)
SumLen(v, indices) ==
    IF indices = {} THEN 0
    ELSE LET i == CHOOSE j \in indices : TRUE
         IN  Len(v[i]) + SumLen(v, indices \ {i})

remaining == SumLen(vectors, DOMAIN vectors)

\* the loop is over: the simulator returns expired_in_this_advance, the
\* expiration class first does self.clk += ticks_to_advance and returns
\* remaining; the locals end
AdvanceEnd ==
    /\ LoopDone
    /\ clock' = IF impl = "simulator" THEN clock ELSE clock + ticks_to_advance
    /\ pc' = "idle"
    /\ ticks_to_advance' = 0
    /\ tick' = 0
    /\ expired_in_this_advance' = 0
    /\ start_clock' = 0
    /\ ret' = [ret EXCEPT !.val = IF impl = "simulator"
                                  THEN expired_in_this_advance ELSE remaining]
    /\ UNCHANGED <<impl, HZ, vectors, pending_map, timers_added, timers_expired,
                   calls, added, nCalls>>

\* add_timer with a handler that may re-arm
RearmTicks == {0, 1, 100}

AddRearmTimer ==
    /\ pc = "idle"
    /\ impl = "simulator"
    /\ nCalls < MaxCalls
    /\ timers_added < MaxTimers
    /\ \E timeout_ms \in Millis(RearmTicks, HZ), callback \in {"handler", "rearm_0", "rearm_tick"} :
          /\ Becomes(add_timer(Self, timeout_ms, callback))
          /\ ret' = Returned("add_timer", timeout_ms, timers_added)
    /\ nCalls' = nCalls + 1
    /\ UNCHANGED <<impl, HZ, pc, ticks_to_advance, tick, start_clock>>

\* TimerWheelSimulator
Init == Constructed("simulator")

Next ==
    \/ AddTimer
    \/ AdvanceStart
    \/ Tick
    \/ Skip
    \/ AdvanceEnd

Spec == Init /\ [][Next]_vars

\* TimerWheelSimulator with handlers that re-arm
RearmNext ==
    \/ AddRearmTimer
    \/ AdvanceStart
    \/ Tick
    \/ Skip
    \/ AdvanceEnd

RearmSpec == Init /\ [][RearmNext]_vars

\* TimerWheelSimulator(HZ) for any integer HZ, the constructor included.
\* Before the constructor has run there is no wheel: pc = "new".
WideHZ == {-1000, 0, 100, 1000, 2000}

WideMillis == {-15, 0, 19, 100}

WideAdvanceMillis == {-5, 0, 25, 700}

WideInit ==
    /\ impl = "simulator"
    /\ HZ = 0
    /\ clock = 0
    /\ vectors = [i \in {} |-> <<>>]
    /\ pending_map = {}
    /\ timers_added = 0
    /\ timers_expired = 0
    /\ pc = "new"
    /\ ticks_to_advance = 0
    /\ tick = 0
    /\ expired_in_this_advance = 0
    /\ calls = <<>>
    /\ added = <<>>
    /\ nCalls = 0
    /\ start_clock = 0
    /\ ret = Returned("", 0, 0)

\* TimerWheelSimulator.__init__(HZ): TimerWheelConfig(HZ) computes the geometry
\* from HZ without a check of HZ, then the empty wheel is set up
Construct ==
    /\ pc = "new"
    /\ \E hz \in WideHZ :
          /\ HZ' = hz
          /\ ret' = Returned("__init__", hz, 0)
    /\ clock' = 0
    /\ vectors' = [i \in {} |-> <<>>]
    /\ pending_map' = {}
    /\ timers_added' = 0
    /\ timers_expired' = 0
    /\ pc' = "idle"
    /\ UNCHANGED <<impl, ticks_to_advance, tick, expired_in_this_advance, calls,
                   added, nCalls, start_clock>>

\* add_timer: timeout_ms // self.config.get_tick_ms() comes first and may raise
WideAddTimer ==
    /\ pc = "idle"
    /\ impl = "simulator"
    /\ nCalls < MaxCalls
    /\ \E timeout_ms \in WideMillis :
          IF ZeroDivision(HZ)
          THEN /\ ret' = Raised("add_timer", timeout_ms, "ZeroDivisionError")
               /\ UNCHANGED <<clock, vectors, pending_map, timers_added,
                              timers_expired, expired_in_this_advance, calls, added>>
          ELSE /\ Becomes(add_timer(Self, timeout_ms, "handler"))
               /\ ret' = Returned("add_timer", timeout_ms, timers_added)
    /\ nCalls' = nCalls + 1
    /\ UNCHANGED <<impl, HZ, pc, ticks_to_advance, tick, start_clock>>

\* advance_time up to the loop: ms_to_advance // tick_ms comes first and may raise
WideAdvanceStart ==
    /\ pc = "idle"
    /\ nCalls < MaxCalls
    /\ \E ms_to_advance \in WideAdvanceMillis :
          IF ZeroDivision(HZ)
          THEN /\ ret' = Raised("advance_time", ms_to_advance, "ZeroDivisionError")
               /\ UNCHANGED <<pc, ticks_to_advance, tick, expired_in_this_advance,
                              start_clock>>
          ELSE /\ ticks_to_advance' = FloorDiv(ms_to_advance, get_tick_ms(HZ))
               /\ ret' = Returned("advance_time", ms_to_advance, None)
               /\ pc' = "advancing"
               /\ tick' = 0
               /\ expired_in_this_advance' = 0
               /\ start_clock' = clock
    /\ nCalls' = nCalls + 1
    /\ UNCHANGED <<impl, HZ, clock, vectors, pending_map, timers_added,
                   timers_expired, calls, added>>

WideNext ==
    \/ Construct
    \/ WideAddTimer
    \/ WideAdvanceStart
    \/ Tick
    \/ Skip
    \/ AdvanceEnd

WideSpec == WideInit /\ [][WideNext]_vars

\* the three index mappers applied to the same clock and expiry, for wheels of
\* any HZ: the distances expires - clock around the start of every level,
\* around WHEEL_TIMEOUT_MAX and around WHEEL_TIMEOUT_CUTOFF
IndexDeltas(hz) ==
    {-64, -1, 0, WHEEL_TIMEOUT_MAX(hz) - 1, WHEEL_TIMEOUT_MAX(hz),
     WHEEL_TIMEOUT_CUTOFF(hz) + 1}
        \cup {level_start(n) - 1 : n \in 1..LVL_DEPTH(hz)}
        \cup {level_start(n) : n \in 1..LVL_DEPTH(hz)}

Mappers == {"calc_index", "time_to_index", "exp_calc_index"}

\* the index the mapper returns for expires on a wheel of hz whose clock is clk
MapIndex(mapper, clk, hz, expires) ==
    IF mapper = "calc_index" THEN calc_index(clk, hz, expires)
    ELSE IF mapper = "time_to_index" THEN time_to_index(expires, clk, hz)
    ELSE exp_calc_index(clk, hz, expires)

\* a call of one of the mappers; none of them changes the wheel
CalcIndex ==
    /\ pc = "idle"
    /\ nCalls < MaxCalls
    /\ \E mapper \in Mappers, delta \in IndexDeltas(HZ) :
          LET index == MapIndex(mapper, clock, HZ, clock + delta) IN
          ret' = IF index = IndexError
                 THEN Raised(mapper, clock + delta, "IndexError")
                 ELSE Returned(mapper, clock + delta, index)
    /\ nCalls' = nCalls + 1
    /\ UNCHANGED <<impl, HZ, clock, vectors, pending_map, timers_added,
                   timers_expired, pc, ticks_to_advance, tick,
                   expired_in_this_advance, calls, added, start_clock>>

\* no timer is given to the wheel: every iteration of advance_time is a quiet one
IndexNext ==
    \/ Construct
    \/ CalcIndex
    \/ WideAdvanceStart
    \/ Skip
    \/ AdvanceEnd

IndexSpec == WideInit /\ [][IndexNext]_vars

\* timer_wheel_expiration.TimerWheel.run_simulation: four add_timer calls, then
\* five advance_time calls, each between two print_wheel_state calls, on the
\* wheels the module builds; nCalls is the number of statements executed
RunHZ == {1000, 300, 250, 100}

run_simulation ==
    <<[op |-> "add_timer", id |-> "A", ms |-> 100],
      [op |-> "add_timer", id |-> "B", ms |-> 50],
      [op |-> "add_timer", id |-> "C", ms |-> 150],
      [op |-> "add_timer", id |-> "D", ms |-> 75],
      [op |-> "print_wheel_state", id |-> "", ms |-> 0],
      [op |-> "advance_time", id |-> "", ms |-> 25],
      [op |-> "print_wheel_state", id |-> "", ms |-> 0],
      [op |-> "advance_time", id |-> "", ms |-> 25],
      [op |-> "print_wheel_state", id |-> "", ms |-> 0],
      [op |-> "advance_time", id |-> "", ms |-> 25],
      [op |-> "print_wheel_state", id |-> "", ms |-> 0],
      [op |-> "advance_time", id |-> "", ms |-> 25],
      [op |-> "print_wheel_state", id |-> "", ms |-> 0],
      [op |-> "advance_time", id |-> "", ms |-> 50],
      [op |-> "print_wheel_state", id |-> "", ms |-> 0]>>

\* TimerWheel(hz), hz one of RunHZ
RunInit ==
    /\ impl = "expiration"
    /\ HZ \in RunHZ
    /\ clock = 0
    /\ vectors = [i \in {} |-> <<>>]
    /\ pending_map = {}
    /\ timers_added = 0
    /\ timers_expired = 0
    /\ pc = "idle"
    /\ ticks_to_advance = 0
    /\ tick = 0
    /\ expired_in_this_advance = 0
    /\ calls = <<>>
    /\ added = <<>>
    /\ nCalls = 0
    /\ start_clock = 0
    /\ ret = Returned("__init__", 0, 0)

\* the next statement of run_simulation is self.add_timer(id, ms)
RunAddTimer ==
    /\ pc = "idle"
    /\ nCalls < Len(run_simulation)
    /\ run_simulation[nCalls + 1].op = "add_timer"
    /\ LET call == run_simulation[nCalls + 1] IN
          /\ Becomes(exp_add_timer(Self, call.id, call.ms))
          /\ ret' = Returned("add_timer", call.ms,
                              exp_calc_index(clock, HZ,
                                  clock + FloorDiv(call.ms, get_tick_ms(HZ))))
    /\ nCalls' = nCalls + 1
    /\ UNCHANGED <<impl, HZ, pc, ticks_to_advance, tick, start_clock>>

\* the next statement of run_simulation is self.advance_time(ms), up to the loop
RunAdvanceStart ==
    /\ pc = "idle"
    /\ nCalls < Len(run_simulation)
    /\ run_simulation[nCalls + 1].op = "advance_time"
    /\ LET call == run_simulation[nCalls + 1] IN
          /\ ticks_to_advance' = FloorDiv(call.ms, get_tick_ms(HZ))
          /\ ret' = Returned("advance_time", call.ms, None)
    /\ nCalls' = nCalls + 1
    /\ pc' = "advancing"
    /\ tick' = 0
    /\ expired_in_this_advance' = 0
    /\ start_clock' = clock
    /\ UNCHANGED <<impl, HZ, clock, vectors, pending_map, timers_added,
                   timers_expired, calls, added>>

\* the next statement of run_simulation is self.print_wheel_state(), which
\* reads the wheel and prints
RunPrintWheelState ==
    /\ pc = "idle"
    /\ nCalls < Len(run_simulation)
    /\ run_simulation[nCalls + 1].op = "print_wheel_state"
    /\ ret' = Returned("print_wheel_state", 0, None)
    /\ nCalls' = nCalls + 1
    /\ UNCHANGED <<impl, HZ, clock, vectors, pending_map, timers_added,
                   timers_expired, pc, ticks_to_advance, tick,
                   expired_in_this_advance, calls, added, start_clock>>

RunNext ==
    \/ RunAddTimer
    \/ RunPrintWheelState
    \/ RunAdvanceStart
    \/ ExpTick
    \/ Skip
    \/ AdvanceEnd

RunSpec == RunInit /\ [][RunNext]_vars

\* timer_wheel_76.TimerWheel.__init__: the depth and the granularities that
\* class derives from hz
LVL_DEPTH76(hz) == IF hz > 100 THEN 9 ELSE 8

level_gran76(n) == 2^(n * LVL_CLK_SHIFT)

\* timer_wheel.TimerWheel, the analysis class: __init__ sets LVL_DEPTH and
\* LVL_CLK_DIV to literals, whatever hz is
AnalysisLVL_DEPTH == 9

LVL_CLK_DIV == 8

\* analyze, row of `level`: granularity_ns = tick_ns * (LVL_CLK_DIV ** level),
\* that is LVL_CLK_DIV ** level ticks of tick_ns nanoseconds
RECURSIVE Power(_, _)
Power(b, e) == IF e <= 0 THEN 1 ELSE b * Power(b, e - 1)

granularity_ticks(level) == Power(LVL_CLK_DIV, level)

\* the hz values of the three mains: timer_wheel.py and timer_wheel_76.py run
\* 1000, 250, 100 and timer_wheel_expiration.py 1000, 300, 250, 100; 101 is the
\* smallest hz for which the wheel classes have 9 levels
AnalysisHZ == {100, 101, 250, 300, 1000}

AnalyzeInit ==
    /\ impl = "analysis"
    /\ HZ = 0
    /\ clock = 0
    /\ vectors = [i \in {} |-> <<>>]
    /\ pending_map = {}
    /\ timers_added = 0
    /\ timers_expired = 0
    /\ pc = "new"
    /\ ticks_to_advance = 0
    /\ tick = 0
    /\ expired_in_this_advance = 0
    /\ calls = <<>>
    /\ added = <<>>
    /\ nCalls = 0
    /\ start_clock = 0
    /\ ret = Returned("", 0, 0)

\* timer_wheel.TimerWheel(hz)
AnalysisConstruct ==
    /\ pc = "new"
    /\ \E hz \in AnalysisHZ :
          /\ HZ' = hz
          /\ ret' = Returned("__init__", hz, 0)
    /\ pc' = "idle"
    /\ UNCHANGED <<impl, clock, vectors, pending_map, timers_added, timers_expired,
                   ticks_to_advance, tick, expired_in_this_advance, calls, added,
                   nCalls, start_clock>>

\* analyze(include_bits) up to its loop; tick is the loop variable `level`
AnalyzeStart ==
    /\ pc = "idle"
    /\ nCalls < MaxCalls
    /\ \E include_bits \in {0, 1} : ret' = Returned("analyze", include_bits, None)
    /\ nCalls' = nCalls + 1
    /\ pc' = "analyzing"
    /\ tick' = 0
    /\ UNCHANGED <<impl, HZ, clock, vectors, pending_map, timers_added,
                   timers_expired, ticks_to_advance, expired_in_this_advance,
                   calls, added, start_clock>>

\* body of `for level in range(self.LVL_DEPTH)`: the row of the level is
\* printed, with its granularity
AnalyzeRow ==
    /\ pc = "analyzing"
    /\ tick < AnalysisLVL_DEPTH
    /\ ret' = Returned("analyze_row", tick, granularity_ticks(tick))
    /\ tick' = tick + 1
    /\ UNCHANGED <<impl, HZ, clock, vectors, pending_map, timers_added,
                   timers_expired, pc, ticks_to_advance, expired_in_this_advance,
                   calls, added, nCalls, start_clock>>

\* the loop is over and the totals are printed: val is the number of rows
AnalyzeEnd ==
    /\ pc = "analyzing"
    /\ tick >= AnalysisLVL_DEPTH
    /\ ret' = Returned("analyze", 0, tick)
    /\ pc' = "idle"
    /\ tick' = 0
    /\ UNCHANGED <<impl, HZ, clock, vectors, pending_map, timers_added,
                   timers_expired, ticks_to_advance, expired_in_this_advance,
                   calls, added, nCalls, start_clock>>

AnalyzeNext ==
    \/ AnalysisConstruct
    \/ AnalyzeStart
    \/ AnalyzeRow
    \/ AnalyzeEnd

AnalyzeSpec == AnalyzeInit /\ [][AnalyzeNext]_vars

\* w.cancel(timer_id): TimerWheelSimulator defines __init__, calc_index,
\* add_timer, advance_time and the printing methods, and no cancel (only the
\* counter timers_cancelled, which nothing updates): the attribute lookup
\* raises AttributeError and the wheel is as it was.
Cancel ==
    /\ pc = "idle"
    /\ impl = "simulator"
    /\ nCalls < MaxCalls
    /\ \E timer_id \in 0..(timers_added - 1) :
          ret' = Raised("cancel", timer_id, "AttributeError")
    /\ nCalls' = nCalls + 1
    /\ UNCHANGED <<impl, HZ, clock, vectors, pending_map, timers_added,
                   timers_expired, pc, ticks_to_advance, tick,
                   expired_in_this_advance, calls, added, start_clock>>

\* TimerWheelSimulator and the calls of cancel on it
CancelNext ==
    \/ AddTimer
    \/ Cancel
    \/ AdvanceStart
    \/ Tick
    \/ Skip
    \/ AdvanceEnd

CancelSpec == Init /\ [][CancelNext]_vars

\* timer_wheel_expiration.TimerWheel
ExpInit == Constructed("expiration")

ExpNext ==
    \/ ExpAddTimer
    \/ AdvanceStart
    \/ ExpTick
    \/ Skip
    \/ AdvanceEnd

ExpSpec == ExpInit /\ [][ExpNext]_vars

\* a wheel of either class
BothInit == Init \/ ExpInit

BothNext ==
    \/ AddTimer
    \/ ExpAddTimer
    \/ AdvanceStart
    \/ Tick
    \/ ExpTick
    \/ Skip
    \/ AdvanceEnd

BothSpec == BothInit /\ [][BothNext]_vars

\* a wheel of either class with a timer in every level: one timeout per level,
\* the first one above the start of the level
LevelTicks(hz) == {1} \cup {level_start(n) + 1 : n \in 1..(LVL_DEPTH(hz) - 1)}

AddLevelTimer ==
    /\ pc = "idle"
    /\ nCalls < MaxCalls
    /\ Len(added) < MaxLevelTimers
    /\ \E timeout_ms \in Millis(LevelTicks(HZ), HZ) :
          IF impl = "simulator"
          THEN /\ Becomes(add_timer(Self, timeout_ms, "handler"))
               /\ ret' = Returned("add_timer", timeout_ms, timers_added)
          ELSE /\ Becomes(exp_add_timer(Self, Len(added), timeout_ms))
               /\ ret' = Returned("add_timer", timeout_ms,
                                   exp_calc_index(clock, HZ,
                                       clock + FloorDiv(timeout_ms, get_tick_ms(HZ))))
    /\ nCalls' = nCalls + 1
    /\ UNCHANGED <<impl, HZ, pc, ticks_to_advance, tick, start_clock>>

LevelNext ==
    \/ AddLevelTimer
    \/ AdvanceStart
    \/ Tick
    \/ ExpTick
    \/ Skip
    \/ AdvanceEnd

LevelSpec == BothInit /\ [][LevelNext]_vars

\* a wheel of either class at HZ = 1000 (1 ms = 1 tick) with timers that are
\* due within a turn of level 0 or just after it
SplitTicks == {-1, 0, 1, 64}

AddSplitTimer ==
    /\ pc = "idle"
    /\ nCalls < MaxCalls
    /\ \E timeout_ms \in Millis(SplitTicks, HZ) :
          IF impl = "simulator"
          THEN /\ Becomes(add_timer(Self, timeout_ms, "handler"))
               /\ ret' = Returned("add_timer", timeout_ms, timers_added)
          ELSE /\ Becomes(exp_add_timer(Self, Len(added), timeout_ms))
               /\ ret' = Returned("add_timer", timeout_ms,
                                   exp_calc_index(clock, HZ,
                                       clock + FloorDiv(timeout_ms, get_tick_ms(HZ))))
    /\ nCalls' = nCalls + 1
    /\ UNCHANGED <<impl, HZ, pc, ticks_to_advance, tick, start_clock>>

SplitInit == BothInit /\ HZ = 1000

SplitNext ==
    \/ AddSplitTimer
    \/ AdvanceStart
    \/ Tick
    \/ ExpTick
    \/ Skip
    \/ AdvanceEnd

SplitSpec == SplitInit /\ [][SplitNext]_vars

-----------------------------------------------------------------------------
(* The steps Skip leaves out are iterations without effect: an iteration in *)
(* which no timer is due changes nothing but the tick, and one in which a   *)
(* timer is due calls a handler.                                            *)

OneIteration == pc = "advancing" /\ pc' = "advancing" /\ tick' = tick + 1

QuietIterationChangesNothing ==
    [][(OneIteration /\ ~DueNext) =>
          UNCHANGED <<vectors, pending_map, timers_added, timers_expired,
                      expired_in_this_advance, calls, added>>]_vars

DueIterationCallsHandler ==
    [][(OneIteration /\ DueNext) => Len(calls') > Len(calls)]_vars

-----------------------------------------------------------------------------
(* Vocabulary of the properties *)

\* the ticks the handler of timer id was called with, in order
CallTicks(id) ==
    LET own == SelectSeq(calls, LAMBDA c : c.id = id)
    IN  [k \in 1..Len(own) |-> own[k].tick]

\* the places <<bucket index, position>> that hold timer id
Places(id) ==
    UNION {{<<i, k>> : k \in {j \in 1..Len(vectors[i]) : vectors[i][j].id = id}} :
              i \in DOMAIN vectors}

Ids == {added[k].id : k \in 1..Len(added)}

\* the bucket of index i is one that the iteration for tick t inspects
Inspected(i, t) == BucketOf(t, i \div LVL_SIZE) = i % LVL_SIZE

-----------------------------------------------------------------------------
(* Properties *)

\* C1 (round trip): a timer added with a timeout of t ticks, 1 <= t <=
\* WHEEL_TIMEOUT_MAX, and then advance_time for exactly t ticks: when the loop
\* has run, the handler has been called exactly once, with the tick
\* insertion tick + t.  (With t = 0 the advance runs no iteration; a timeout of
\* 0 is the subject of C5.)
C1_RoundTrip ==
    (impl = "simulator" /\ LoopDone /\ added # <<>>) =>
        LET a == added[Len(added)] IN
        (/\ a.clk = start_clock
         /\ ticks_to_advance = a.timeout_ticks
         /\ 1 <= a.timeout_ticks
         /\ a.timeout_ticks <= WHEEL_TIMEOUT_MAX(HZ))
        => CallTicks(a.id) = <<a.clk + a.timeout_ticks>>

\* C2 (no double fire): the handler of every timer is called at most once, and
\* a timer whose handler has been called is in no bucket.
C2_NoDoubleFire ==
    \A id \in Ids :
        /\ Len(CallTicks(id)) <= 1
        /\ Len(CallTicks(id)) = 1 => Places(id) = {}

\* a timer has fired and the bucket it was in has been inspected again since
C2_Witness ==
    \E id \in Ids :
        /\ Len(CallTicks(id)) = 1
        /\ Now >= CallTicks(id)[1] + LVL_SIZE
        /\ Places(id) = {}

\* C3 (100 ms at HZ = 1000): the timer added at tick 0 with 100 ms gets wheel
\* index 76, which is level 1, bucket 12, of granularity 8 ticks; its handler is
\* never called with a tick other than 100 (so it is pending up to tick 99), it
\* stays in bucket 76 until then, and once the iteration for tick 100 has run
\* it has been called exactly once.
C3_Scenario ==
    \A k \in 1..Len(added) :
        LET a == added[k] IN
        (HZ = 1000 /\ a.clk = 0 /\ a.timeout_ticks = 100) =>
            /\ a.wheel_index = 76
            /\ a.wheel_index \div LVL_SIZE = 1
            /\ a.wheel_index % LVL_SIZE = 12
            /\ level_gran(a.wheel_index \div LVL_SIZE) = 8
            /\ a.expires = 100
            /\ CallTicks(a.id) \in {<<>>, <<100>>}
            /\ CallTicks(a.id) = <<>> =>
                  /\ Cardinality(Places(a.id)) = 1
                  /\ \A place \in Places(a.id) : place[1] = 76
            /\ CallTicks(a.id) = <<100>> => Places(a.id) = {}
            /\ Now >= 100 => CallTicks(a.id) = <<100>>
            /\ (impl = "simulator" /\ Now <= 99) => CallTicks(a.id) = <<>>

\* the timer was pending after an advance to tick 99 and fired in a further
\* advance to tick 100
C3_Witness ==
    \E k \in 1..Len(added) :
        /\ HZ = 1000 /\ added[k].clk = 0 /\ added[k].timeout_ticks = 100
        /\ pc = "advancing" /\ start_clock = 99 /\ Now = 100
        /\ CallTicks(added[k].id) = <<100>>

\* C4 (index mapping): for every delta = expires - clock in the closed range
\* [0, WHEEL_TIMEOUT_MAX], calc_index returns an index, never None, in
\* [0, LVL_DEPTH * 64); its level l is the one with level_start[l] <= delta <
\* level_start[l + 1], and its slot is (expires >> (3 * l)) & 63.
C4_CalcIndexTotal ==
    \A k \in 1..Len(added) :
        LET a == added[k]
            delta == a.timeout_ticks
            l == a.calc \div LVL_SIZE
        IN  (impl = "simulator" /\ 0 <= delta /\ delta <= WHEEL_TIMEOUT_MAX(HZ)) =>
                /\ a.calc # None
                /\ a.calc \in 0..(LVL_DEPTH(HZ) * 64 - 1)
                /\ level_start(l) <= delta
                /\ delta < level_start(l + 1)
                /\ a.calc % 64 = ShiftRight(a.clk + delta, 3 * l) % 64

\* C5 (timeout 0): a timer added with timeout 0 at clock c has its handler
\* called in the first iteration run after that, the one for tick c + 1.
C5_ZeroTimeoutNextTick ==
    \A k \in 1..Len(added) :
        LET a == added[k] IN
        (impl = "simulator" /\ a.timeout_ticks = 0 /\ clock > a.clk) =>
            CallTicks(a.id) = <<a.clk + 1>>

\* C6 (clamp): a timer added at clock c with a timeout above WHEEL_TIMEOUT_MAX
\* expires at c + WHEEL_TIMEOUT_MAX and its handler is called in the iteration
\* for that tick, in no later one.
C6_ClampFiresAtMax ==
    \A k \in 1..Len(added) :
        LET a == added[k]
            at == a.clk + WHEEL_TIMEOUT_MAX(HZ)
        IN  (impl = "simulator" /\ a.timeout_ticks > WHEEL_TIMEOUT_MAX(HZ)) =>
                /\ a.expires = at
                /\ CallTicks(a.id) \in {<<>>, <<at>>}
                /\ clock >= at => CallTicks(a.id) = <<at>>

\* C7 (past expiry): a timer whose expiry is before the clock is put in level 0
\* at the slot of the current tick, and its handler is called in the first
\* iteration run after that.
C7_PastExpiryNextScan ==
    \A k \in 1..Len(added) :
        LET a == added[k] IN
        a.timeout_ticks < 0 =>
            /\ a.wheel_index = BucketOf(a.clk, 0)
            /\ (Now > a.clk /\ Now > start_clock) => CallTicks(a.id) = <<a.clk + 1>>

\* C8 (handler failure): a timer whose handler raised is in no bucket; after an
\* iteration no bucket it inspects holds a due timer, whether or not a handler
\* raised in it; and when the loop has run the clock is at its target.
C8_HandlerFailureIsolated ==
    impl = "simulator" =>
        /\ \A k \in 1..Len(calls) : calls[k].raised => Places(calls[k].id) = {}
        /\ (pc = "advancing" /\ tick >= 1) =>
              \A i \in DOMAIN vectors :
                  Inspected(i, clock) =>
                      \A j \in 1..Len(vectors[i]) : vectors[i][j].expires > clock
        /\ LoopDone => clock = start_clock + Max(ticks_to_advance, 0)

\* in one advance_time call a handler raised, another timer of the same bucket
\* was fired after it in the same iteration, and a third in a later iteration
C8_Witness ==
    /\ impl = "simulator"
    /\ LoopDone
    /\ \E k1, k2, k3 \in 1..Len(calls) :
          /\ k1 < k2 /\ k2 < k3
          /\ calls[k1].raised
          /\ calls[k1].tick > start_clock
          /\ calls[k2].tick = calls[k1].tick
          /\ calls[k3].tick > calls[k1].tick
          /\ \E x, y \in 1..Len(added) :
                /\ added[x].id = calls[k1].id /\ added[y].id = calls[k2].id
                /\ added[x].wheel_index = added[y].wheel_index

\* C9 (same expiry tick): two timers with distinct ids and the same expiry
\* tick, both inserted before that tick, have their handlers called exactly
\* once each in the same iteration: at every moment either none of the two has
\* been called or both have, once, with the same tick.
C9_SameExpirySameTick ==
    \A x, y \in 1..Len(added) :
        LET a == added[x]
            b == added[y]
        IN  (/\ impl = "simulator"
             /\ a.id # b.id
             /\ a.expires = b.expires
             /\ a.clk < a.expires
             /\ b.clk < b.expires)
            => /\ Len(CallTicks(a.id)) <= 1
               /\ CallTicks(a.id) = CallTicks(b.id)

\* C10 (clock): the clock never decreases, and it changes only inside
\* advance_time.
C10_ClockMonotone ==
    [][clock' >= clock /\ (clock' # clock => pc = "advancing")]_vars

\* C11 (return value): advance_time returns the number of handler calls made
\* during the call, those that raised included, which is the decrease of the
\* number of pending timers: the counter starts at 0, every iteration adds to
\* it the number of handler calls it made, which is the number of timers that
\* left the buckets, and the call returns the counter.
C11_ReturnsFiredCount ==
    [][impl = "simulator" =>
          /\ (pc = "idle" /\ pc' = "advancing") =>
                /\ expired_in_this_advance' = 0
                /\ calls' = calls /\ remaining' = remaining
          /\ (pc = "advancing" /\ pc' = "advancing") =>
                /\ expired_in_this_advance' - expired_in_this_advance
                      = Len(calls') - Len(calls)
                /\ expired_in_this_advance' - expired_in_this_advance
                      = remaining - remaining'
          /\ (pc = "advancing" /\ pc' = "idle") =>
                /\ ret'.op = "advance_time" /\ ret'.exc = ""
                /\ ret'.val = expired_in_this_advance
                /\ calls' = calls /\ remaining' = remaining]_vars

\* an advance_time call has returned 2 or more, one of the handlers it
\* called raised, and a timer is still pending
C11_Witness ==
    /\ impl = "simulator"
    /\ pc = "idle"
    /\ ret.op = "advance_time"
    /\ ret.val >= 2
    /\ Len(calls) = ret.val
    /\ \E k \in 1..Len(calls) : calls[k].raised
    /\ remaining >= 1

\* C12 (termination): advance_time(n), n >= 0, runs to completion after exactly
\* n iterations, also when handlers call add_timer on the wheel, re-arming
\* themselves with a timeout >= 0.  The loop over a bucket ends only if it
\* stops meeting timers that its own handler calls appended: a handler that
\* re-arms behaves the same on each call at the same clock, so no timer may be
\* fired in the iteration in which it was inserted; and when the loop has run,
\* n iterations have been made and the clock has advanced by n.
C12_AdvanceTerminates ==
    /\ \A k \in 1..Len(added), j \in 1..Len(calls) :
          calls[j].id = added[k].id => calls[j].tick > added[k].clk
    /\ (LoopDone /\ ticks_to_advance >= 0) =>
          /\ tick = ticks_to_advance
          /\ clock = start_clock + ticks_to_advance

\* C13 (invalid configuration): constructing a wheel with HZ <= 0 fails: the
\* constructor raises and there is no wheel afterwards.
C13_RejectsNonPositiveHZ ==
    /\ (ret.op = "__init__" /\ ret.arg <= 0) => (ret.exc # "" /\ pc = "new")
    /\ pc # "new" => HZ >= 1

\* a / b truncated toward zero, b > 0
TruncDiv(a, b) == IF a >= 0 THEN a \div b ELSE -((-a) \div b)

\* the ticks the last call converted its millisecond argument to
ConvertedTicks ==
    IF ret.op = "add_timer" THEN added[Len(added)].timeout_ticks ELSE ticks_to_advance

\* C14 (millisecond conversion): for every HZ >= 1 and every integer
\* millisecond argument, add_timer and advance_time are able to convert it, and
\* the ticks are millis / (1000 / HZ) truncated toward zero.
C14_MillisTruncate ==
    (HZ >= 1 /\ (ret.op = "add_timer" \/ (ret.op = "advance_time" /\ pc = "advancing")
                                      \/ ret.exc # "")) =>
        IF ret.exc # "" THEN FALSE
        ELSE ConvertedTicks = TruncDiv(ret.arg, TruncDiv(1000, HZ))

\* C15 (geometry): the wheel has 9 levels if HZ > 100 and 8 otherwise, and the
\* bucket array holds exactly 64 * levels buckets: every bucket and marker in
\* use, and every index add_timer returned, is one of them.
C15_Geometry ==
    LET levels == IF HZ > 100 THEN 9 ELSE 8 IN
    /\ LVL_DEPTH(HZ) = levels
    /\ WHEEL_SIZE(HZ) = 64 * levels
    /\ \A i \in (DOMAIN vectors) \cup pending_map : 0 <= i /\ i < 64 * levels
    /\ \A k \in 1..Len(added) :
          added[k].wheel_index # None =>
              (0 <= added[k].wheel_index /\ added[k].wheel_index < 64 * levels)

\* HZ = 100, the largest HZ with 8 levels: a timer is pending in the 8th level
C15_Witness ==
    /\ HZ = 100
    /\ \E i \in DOMAIN vectors : i \div 64 = 7

\* C16 (level tables): level_start[0..levels] is strictly increasing,
\* level_gran is strictly increasing, and WHEEL_TIMEOUT_MAX is
\* level_start[levels] - level_gran[levels - 1].
C16_LevelTables ==
    LET levels == LVL_DEPTH(HZ) IN
    /\ \A n \in 0..(levels - 1) :
          /\ level_start(n) < level_start(n + 1)
          /\ level_gran(n) < level_gran(n + 1)
    /\ WHEEL_TIMEOUT_MAX(HZ) = level_start(levels) - level_gran(levels - 1)

\* HZ = 1000: a timer of WHEEL_TIMEOUT_MAX - 1 ticks is stored in the 9th level
C16_Witness ==
    /\ HZ = 1000
    /\ \E k \in 1..Len(added) :
          /\ added[k].timeout_ticks = WHEEL_TIMEOUT_MAX(HZ) - 1
          /\ added[k].wheel_index \div 64 = 8
          /\ Places(added[k].id) # {}

\* a step that is an add_timer call, and the entry of the call
IsAddTimerCall == pc = "idle" /\ Len(added') = Len(added) + 1

LastAdded == added[Len(added)]

\* the step leaves the clock, the expired counter and every bucket and marker
\* other than those of index idx unchanged
FrameExcept(idx) ==
    /\ clock' = clock
    /\ timers_expired' = timers_expired
    /\ \A i \in ((DOMAIN vectors) \cup (DOMAIN vectors') \cup pending_map
                    \cup pending_map') \ {idx} :
          /\ Bucket(vectors', i) = Bucket(vectors, i)
          /\ Marker(pending_map', i) = Marker(pending_map, i)

\* the step appends one timer, the new one, to the bucket of index idx, after
\* the timers that are in it, and sets the marker of the bucket
AppendsTo(idx) ==
    /\ Len(Bucket(vectors', idx)) = Len(Bucket(vectors, idx)) + 1
    /\ SubSeq(Bucket(vectors', idx), 1, Len(Bucket(vectors, idx))) = Bucket(vectors, idx)
    /\ Bucket(vectors', idx)[Len(Bucket(vectors', idx))].id = LastAdded'.id
    /\ Marker(pending_map', idx) = 1

\* C17 (frame of insert), as stated: every add_timer call appends the new timer
\* to exactly one bucket and sets its marker, and leaves the clock, the other
\* buckets and markers, the timers already in the bucket and the expired
\* counter unchanged.
C17_InsertFrame ==
    [][IsAddTimerCall =>
          (AppendsTo(LastAdded'.wheel_index) /\ FrameExcept(LastAdded'.wheel_index))]_vars

\* C17 as amended: an add_timer call that does not reject the timeout does
\* the above; one that rejects it (returns None) changes no bucket, no marker,
\* nor the clock or the expired counter.
C17_InsertFrameUnlessRejected ==
    [][IsAddTimerCall =>
          IF LastAdded'.wheel_index # None
          THEN AppendsTo(LastAdded'.wheel_index) /\ FrameExcept(LastAdded'.wheel_index)
          ELSE /\ ret'.val = None
               /\ vectors' = vectors /\ pending_map' = pending_map
               /\ FrameExcept(None)]_vars

\* the last call was an add_timer that put its timer behind another one in a
\* bucket, while a second bucket holds a timer, and an earlier call was rejected
C17_Witness ==
    /\ pc = "idle"
    /\ ret.op = "add_timer"
    /\ LastAdded.wheel_index # None
    /\ Len(Bucket(vectors, LastAdded.wheel_index)) >= 2
    /\ Bucket(vectors, LastAdded.wheel_index)[2].id = LastAdded.id
    /\ \E i \in DOMAIN vectors : i # LastAdded.wheel_index
    /\ \E k \in 1..Len(added) : added[k].wheel_index = None

\* a step that is a call of cancel, and the id it is given
IsCancelCall == pc = "idle" /\ nCalls' = nCalls + 1 /\ ret'.op = "cancel"

\* C18 (cancel): cancel of a pending timer returns true and removes the timer
\* from its bucket without a call of its handler; cancel of a timer that is not
\* pending, as after a first cancel, returns false.  (true is 1, false is 0.)
C18_CancelTwice ==
    [][IsCancelCall =>
          /\ ret'.exc = ""
          /\ ret'.val = (IF Places(ret'.arg) # {} THEN 1 ELSE 0)
          /\ \A i \in DOMAIN vectors' : \A j \in 1..Len(vectors'[i]) :
                vectors'[i][j].id # ret'.arg
          /\ calls' = calls]_vars

\* C19 (marker invariant): between calls and between the iterations of
\* advance_time, pending_map[i] = 1 if and only if vectors[i] is not empty, for
\* every bucket index i.  (An index that is neither in DOMAIN vectors nor in
\* pending_map has an empty list and a marker of 0.)
C19_MarkerInvariant ==
    \A i \in (DOMAIN vectors) \cup pending_map :
        (Marker(pending_map, i) = 1) <=> (Bucket(vectors, i) # <<>>)

\* after an overflowing insert and an advance in which a handler raised, the
\* bucket of a fired timer is empty and unmarked while another is marked
C19_Witness ==
    /\ pc = "idle"
    /\ ret.op = "advance_time"
    /\ \E k \in 1..Len(added) : added[k].calc = None /\ Places(added[k].id) # {}
    /\ \E j \in 1..Len(calls) : \E k \in 1..Len(added) :
          /\ calls[j].raised
          /\ added[k].id = calls[j].id
          /\ Marker(pending_map, added[k].wheel_index) = 0
          /\ Bucket(vectors, added[k].wheel_index) = <<>>

\* C20 (single residence): every timer that has been inserted and not fired is
\* in exactly one place of exactly one bucket; the index of that bucket is the
\* wheel_index stored in the timer, and it is the index add_timer chose, in
\* every state from the insertion to the firing.
C20_SingleResidence ==
    impl = "simulator" =>
        /\ \A k \in 1..Len(added) :
              LET a == added[k] IN
              CallTicks(a.id) = <<>> =>
                  /\ Cardinality(Places(a.id)) = 1
                  /\ \A place \in Places(a.id) : place[1] = a.wheel_index
        /\ \A i \in DOMAIN vectors : \A j \in 1..Len(vectors[i]) :
              /\ vectors[i][j].wheel_index = i
              /\ vectors[i][j].id \in Ids

\* after an advance that fired a timer, a timer of WHEEL_TIMEOUT_MAX + 1 ticks
\* inserted at clock 0 is still pending, with another timer in its bucket
C20_Witness ==
    /\ impl = "simulator"
    /\ pc = "idle"
    /\ clock > 0
    /\ calls # <<>>
    /\ \E k \in 1..Len(added) :
          /\ added[k].clk = 0
          /\ added[k].calc = None
          /\ CallTicks(added[k].id) = <<>>
          /\ Len(Bucket(vectors, added[k].wheel_index)) >= 2

\* C21 (exact expiry at every level): a timer added with a timeout of t ticks,
\* 1 <= t < WHEEL_TIMEOUT_MAX, at any clock value, is fired in the iteration
\* for the tick equal to its expiry, clock at insertion + t, whatever level it
\* is stored in and whatever calls follow: its handler is never called with
\* another tick, and after every iteration it is not pending with an expiry at
\* or before the tick of the iteration.
C21_ExactExpiry ==
    \A k \in 1..Len(added) :
        LET a == added[k] IN
        (1 <= a.timeout_ticks /\ a.timeout_ticks < WHEEL_TIMEOUT_MAX(HZ)) =>
            /\ a.expires = a.clk + a.timeout_ticks
            /\ CallTicks(a.id) \in {<<>>, <<a.expires>>}
            /\ Places(a.id) # {} => a.expires > Now
            /\ CallTicks(a.id) = <<>> => Places(a.id) # {}

\* a timer inserted at a clock other than 0 in a level between the first and
\* the last, and a timer of the last level, have both been fired, each at its
\* expiry
C21_Witness ==
    \E x, y \in 1..Len(added) :
        /\ added[x].clk > 0
        /\ added[x].wheel_index \div LVL_SIZE \in 1..(LVL_DEPTH(HZ) - 2)
        /\ CallTicks(added[x].id) = <<added[x].expires>>
        /\ added[y].wheel_index \div LVL_SIZE = LVL_DEPTH(HZ) - 1
        /\ CallTicks(added[y].id) = <<added[y].expires>>


\* C22 (never early): every handler call, for an ordinary timer, one with a
\* zero or negative timeout or a clamped one, is given as firing tick the clock
\* of the iteration that makes the call, and that tick is at or after the
\* expiry of the timer.
C22_NeverEarly ==
    /\ [](\A j \in 1..Len(calls) :
             \E k \in 1..Len(added) :
                 /\ added[k].id = calls[j].id
                 /\ calls[j].tick >= added[k].expires)
    /\ [][\A j \in (Len(calls) + 1)..Len(calls') :
             /\ pc = "advancing"
             /\ calls'[j].tick = (IF impl = "simulator" THEN clock' ELSE clock' + tick')]_vars

\* at HZ = 100 a clamped timer has been fired after its expiry, and so has a
\* timer with a negative timeout
C22_Witness ==
    /\ HZ = 100
    /\ \E i, j \in 1..Len(calls) : \E x, y \in 1..Len(added) :
          /\ added[x].id = calls[i].id
          /\ added[x].calc = None
          /\ calls[i].tick > added[x].expires
          /\ added[y].id = calls[j].id
          /\ added[y].timeout_ticks < 0
          /\ calls[j].tick > added[y].expires

\* C23 (bounded eventual firing): every timer that add_timer stored, those with
\* a zero or negative timeout and the clamped ones included, is fired once the
\* clock has advanced far enough, and no later than 64 * level_gran[level] ticks
\* after max(expires, insertion tick), level being that of its bucket: a handler
\* call is never later than that deadline, and in every state whose clock has
\* reached the deadline the handler has been called.  (The deadline is compared
\* after subtracting the 64 * level_gran[level] on both sides.)
C23_FiresWithinWheelTurn ==
    impl = "simulator" =>
        \A k \in 1..Len(added) :
            LET a == added[k]
                turn == 64 * level_gran(a.wheel_index \div LVL_SIZE)
                from == Max(a.expires, a.clk)
            IN  /\ \A j \in 1..Len(calls) :
                      calls[j].id = a.id => calls[j].tick - turn <= from
                /\ clock - turn >= from => CallTicks(a.id) # <<>>

\* a timer with timeout 0 has been fired exactly 64 ticks after its insertion,
\* and a clamped timer (HZ = 100) has been fired after its expiry
C23_Witness ==
    /\ impl = "simulator"
    /\ \E x, y \in 1..Len(added) :
          /\ added[x].timeout_ticks = 0
          /\ CallTicks(added[x].id) = <<added[x].clk + 64>>
          /\ added[y].calc = None
          /\ Len(CallTicks(added[y].id)) = 1
          /\ CallTicks(added[y].id)[1] > added[y].expires

\* C24 (conservation): between the calls and the iterations of a
\* TimerWheelSimulator, also when handlers raise or call add_timer on the wheel,
\* timers_added = timers_expired + the number of timers in all buckets, and no
\* timer is lost or duplicated: every timer given to the wheel is either in
\* exactly one place and not fired, or in no place and fired once, and the
\* buckets hold no other timer.
C24_Conservation ==
    impl = "simulator" =>
        /\ timers_added = timers_expired + remaining
        /\ timers_added = Len(added)
        /\ timers_expired = Len(calls)
        /\ \A id \in Ids :
              \/ Cardinality(Places(id)) = 1 /\ CallTicks(id) = <<>>
              \/ Places(id) = {} /\ Len(CallTicks(id)) = 1
        /\ \A i \in DOMAIN vectors : \A j \in 1..Len(vectors[i]) :
              vectors[i][j].id \in Ids

\* handlers have added timers during advance_time, a handler has raised, two
\* or more timers have been fired and one is pending
C24_Witness ==
    /\ impl = "simulator"
    /\ pc = "idle"
    /\ Len(added) > nCalls
    /\ \E j \in 1..Len(calls) : calls[j].raised
    /\ timers_expired >= 2
    /\ remaining >= 1

\* the ways an advance of 65 ticks is split in two
SplitPairs == {<<0, 65>>, <<1, 64>>, <<2, 63>>, <<64, 1>>}

\* what the claim compares: the clock, the buckets and markers, and the set of
\* (timer id, firing tick) of the handler calls
Observed(w) ==
    [clock |-> w.clock, vectors |-> w.vectors, pending_map |-> w.pending_map,
     firings |-> {<<w.calls[j].id, w.calls[j].tick>> : j \in 1..Len(w.calls)}]

\* the handlers that raise: those of the timers with an odd id
OddIds == {id \in Ids : id % 2 = 1}

\* C25 (additivity, HZ = 1000, 1 ms = 1 tick): from a wheel between calls with
\* any pending timers, advance_time(a) followed by advance_time(b) leaves the
\* same clock, buckets, markers and firings as advance_time(a + b), also when
\* handlers raise.
C25_AdvanceAdditive ==
    (HZ = 1000 /\ pc = "idle" /\ nCalls <= MaxSplitCalls) =>
        \A split \in SplitPairs :
            Observed(advance_time(advance_time(Self, split[1], OddIds),
                                  split[2], OddIds))
                = Observed(advance_time(Self, split[1] + split[2], OddIds))

\* a wheel of the expiration class with a timer that fires in the first part
\* of a split and one that fires in the second part
C25_Witness ==
    /\ HZ = 1000 /\ pc = "idle" /\ nCalls <= MaxSplitCalls
    /\ impl = "expiration"
    /\ \E split \in SplitPairs :
          LET first == advance_time(Self, split[1], OddIds)
              second == advance_time(first, split[2], OddIds)
          IN  /\ Len(first.calls) > Len(calls)
              /\ Len(second.calls) > Len(first.calls)

\* C26 (the three index mappers): for every HZ, clock and expires, with delta =
\* expires - clock: if delta < WHEEL_TIMEOUT_MAX the three mappers return the
\* same index; if WHEEL_TIMEOUT_MAX <= delta < WHEEL_TIMEOUT_CUTOFF,
\* TimerWheelSimulator.calc_index returns None while time_to_index and the
\* calc_index of timer_wheel_expiration return one index, of the last level; if
\* delta >= WHEEL_TIMEOUT_CUTOFF all three return None; and no call raises,
\* also on a wheel of 8 levels.
C26_MappersAgree ==
    ret.op \in Mappers =>
        LET expires == ret.arg
            delta == expires - clock
            sim == calc_index(clock, HZ, expires)
            t76 == time_to_index(expires, clock, HZ)
            exp == exp_calc_index(clock, HZ, expires)
        IN  /\ ret.exc = ""
            /\ ret.val = MapIndex(ret.op, clock, HZ, expires)
            /\ IF delta < WHEEL_TIMEOUT_MAX(HZ)
               THEN sim # None /\ sim = t76 /\ t76 = exp
               ELSE IF delta < WHEEL_TIMEOUT_CUTOFF(HZ)
               THEN /\ sim = None
                    /\ t76 # None /\ t76 = exp
                    /\ t76 \div LVL_SIZE = LVL_DEPTH(HZ) - 1
               ELSE sim = None /\ t76 = None /\ exp = None

\* on a wheel of 8 levels whose clock has advanced, time_to_index has returned
\* an index of the last level for an expiry that calc_index of the simulator
\* maps to None
C26_Witness ==
    /\ LVL_DEPTH(HZ) = 8
    /\ clock > 0
    /\ ret.op = "time_to_index"
    /\ ret.exc = ""
    /\ ret.val \div LVL_SIZE = 7
    /\ calc_index(clock, HZ, ret.arg) = None

\* C27 (reject policy of timer_wheel_expiration.TimerWheel.add_timer): a call
\* whose timeout is beyond the capacity of the wheel, which for this class is
\* a timeout of WHEEL_TIMEOUT_CUTOFF ticks or more, returns None and leaves the
\* clock, every bucket and every marker as they were, so that the marker
\* invariant still holds after it; a call with a smaller timeout is not rejected.
C27_RejectLeavesWheel ==
    [][(IsAddTimerCall /\ impl = "expiration") =>
          /\ (ret'.val = None) <=> (LastAdded'.timeout_ticks >= WHEEL_TIMEOUT_CUTOFF(HZ))
          /\ LastAdded'.timeout_ticks >= WHEEL_TIMEOUT_CUTOFF(HZ) =>
                /\ ret'.op = "add_timer" /\ ret'.exc = ""
                /\ clock' = clock
                /\ vectors' = vectors
                /\ pending_map' = pending_map
                /\ \A i \in (DOMAIN vectors') \cup pending_map' :
                      (Marker(pending_map', i) = 1) <=> (Bucket(vectors', i) # <<>>)]_vars

\* a call has been rejected on a wheel whose clock has advanced and which
\* holds a timer
C27_Witness ==
    /\ impl = "expiration"
    /\ pc = "idle"
    /\ ret.op = "add_timer"
    /\ ret.val = None
    /\ LastAdded.timeout_ticks >= WHEEL_TIMEOUT_CUTOFF(HZ)
    /\ clock > 0
    /\ vectors # [i \in {} |-> <<>>]

\* what an add_timer call made of the wheel value before: whether the timeout
\* was taken as beyond capacity (calc_index returned None), and whether a
\* timer was stored
Overflowed(after) == after.added[Len(after.added)].calc = None

Stored(before, after) == after.vectors # before.vectors

\* C28 (one overflow policy): the add_timer of TimerWheelSimulator and the
\* add_timer of timer_wheel_expiration.TimerWheel, called with the same
\* timeout on wheels of the same HZ and clock, agree on whether the timeout is
\* beyond capacity, and if it is, on the outcome: both store a clamped timer
\* or both reject.
C28_UniformOverflowPolicy ==
    pc = "idle" =>
        \A timeout_ms \in Millis(TimeoutTicks(HZ) \cup ExpTimeoutTicks(HZ), HZ) :
            LET sim == add_timer(Self, timeout_ms, "handler")
                exp == exp_add_timer(Self, Len(added), timeout_ms)
            IN  /\ Overflowed(sim) <=> Overflowed(exp)
                /\ Overflowed(sim) => (Stored(Self, sim) <=> Stored(Self, exp))

\* C29 (announced firing window): every timer that add_timer stored, at
\* whatever clock, is fired at a tick inside the window announced for it,
\* [bucket << (3 * level), ((bucket + 1) << (3 * level)) - 1] with level =
\* idx \div 64 and bucket = idx % 64 of its wheel index.
C29_FiresInAnnouncedWindow ==
    \A j \in 1..Len(calls) : \A k \in 1..Len(added) :
        added[k].id = calls[j].id =>
            /\ window_start(added[k].wheel_index) <= calls[j].tick
            /\ calls[j].tick <= window_end(added[k].wheel_index)

\* the advance_time calls of run_simulation that have returned
AdvancesDone ==
    Cardinality({n \in 1..nCalls : run_simulation[n].op = "advance_time"})
        - (IF pc = "advancing" THEN 1 ELSE 0)

\* C30 (schedule of run_simulation): with A = 100 ms, B = 50 ms, C = 150 ms and
\* D = 75 ms added at clock 0 and advances of 25, 25, 25, 25 and 50 ms, on the
\* wheel of every HZ among 1000, 300, 250 and 100, timer B has expired when the
\* 2nd advance has returned, D when the 3rd has, A when the 4th has and C when
\* the 5th has.
C30_RunSimulationSchedule ==
    /\ AdvancesDone >= 2 => CallTicks("B") # <<>>
    /\ AdvancesDone >= 3 => CallTicks("D") # <<>>
    /\ AdvancesDone >= 4 => CallTicks("A") # <<>>
    /\ AdvancesDone >= 5 => CallTicks("C") # <<>>

\* the level of the bucket the k-th add_timer call stored its timer in
LevelOfAdded(k) == added[k].wheel_index \div LVL_SIZE

\* the timers pending in bucket i whose expiry is at or before tick t
DueIn(i, t) == {j \in 1..Len(vectors[i]) : vectors[i][j].expires <= t}

\* C31 (inspection frequency), as stated: a bucket of level l is inspected only
\* in the iterations whose tick crosses a granularity boundary of level l, so
\* every handler call for a timer of level l is made with a tick that is a
\* multiple of level_gran[l] = 8^l.
C31_InspectedOnBoundaryOnly ==
    \A j \in 1..Len(calls) : \A k \in 1..Len(added) :
        added[k].id = calls[j].id =>
            calls[j].tick % level_gran(LevelOfAdded(k)) = 0

\* C31, as the code has it: every iteration of advance_time inspects every
\* level, at level l the bucket (tick >> 3l) & 63.  A handler call is made in
\* an iteration whose tick addresses the bucket of the timer, and after an
\* iteration no bucket that its tick addresses, at any level, holds a timer
\* whose expiry is at or before that tick.
C31_EveryLevelEveryTick ==
    /\ \A j \in 1..Len(calls) : \A k \in 1..Len(added) :
          added[k].id = calls[j].id =>
              Inspected(added[k].wheel_index, calls[j].tick)
    /\ (pc = "advancing" /\ tick >= 1) =>
          \A i \in Marked : Inspected(i, Now) => DueIn(i, Now) = {}

\* a timer stored above level 0 has been fired in an iteration whose tick is
\* not a multiple of the granularity of its level, while another timer of a
\* level above 0 is still pending
C31_Witness ==
    \E j \in 1..Len(calls) : \E k, p \in 1..Len(added) :
        /\ added[k].id = calls[j].id
        /\ LevelOfAdded(k) >= 1
        /\ calls[j].tick % level_gran(LevelOfAdded(k)) # 0
        /\ LevelOfAdded(p) >= 1
        /\ Places(added[p].id) # {}

\* C32 (clock update order within advance): the iteration of advance_time for
\* tick T processes the buckets of every level while the clock is still T - 1
\* and writes T to the clock afterwards, so an add_timer call that a handler
\* makes in that iteration measures its timeout from T - 1: the timer it adds
\* was inserted at clock T - 1 and, unless clamped, expires at T - 1 plus its
\* timeout in ticks.
C32_RearmMeasuredFromPreviousTick ==
    [][\A k \in (Len(added) + 1)..Len(added') :
          pc = "advancing" =>
              /\ clock' = clock + 1
              /\ added'[k].clk = clock' - 1
              /\ added'[k].calc # None =>
                     added'[k].expires = (clock' - 1) + added'[k].timeout_ticks]_vars

\* C33 (geometry agreement across classes): for every hz, analyze of the
\* analysis class timer_wheel.TimerWheel prints one row per level of the wheel
\* that TimerWheelConfig and timer_wheel_76.TimerWheel derive for that hz, 9
\* rows for hz > 100 and 8 otherwise, and the granularity of the row of a level
\* is the 8^level ticks that both classes have in level_gran.
C33_GeometryAgreement ==
    /\ LVL_DEPTH(HZ) = LVL_DEPTH76(HZ)
    /\ (ret.op = "analyze_row") =>
          /\ ret.arg < LVL_DEPTH(HZ)
          /\ ret.val = level_gran(ret.arg)
          /\ ret.val = level_gran76(ret.arg)
    /\ (ret.op = "analyze" /\ pc = "idle") =>
          /\ ret.val = LVL_DEPTH(HZ)
          /\ ret.val = LVL_DEPTH76(HZ)

====
